---- MODULE Spec2Model ----
(***************************************************************************)
(* Model of scripts/generate_news.py: one run of main() -- load the        *)
(* seen-URL cache, search every category with the two query variants       *)
(* (brave_search and its retry loop), filter against the seen set, merge,  *)
(* shuffle, truncate, record, summarise (openai_summarize and its retry    *)
(* loop), pick a free output path, write the briefing, save the cache.     *)
(*                                                                         *)
(* URLs are small integers; 0 stands for the empty string.  Titles and     *)
(* message contents are tuples of characters so that strip/lstrip/lower    *)
(* are computed as the code computes them.                                 *)
(***************************************************************************)
EXTENDS Integers, Sequences, FiniteSets, TLC

\* ---------------------------------------------------------------- bounds
NumUrls == 2            \* URLs the provider can repeat (the pool 1..NumUrls)
MaxResults == 1         \* longest raw result list of a pool response
MaxCap == 2             \* largest NEWS_MAX_ITEMS tried outside the end-to-end run
MaxLimit == 2           \* largest NEWS_DEDUP_LIMIT tried outside the end-to-end run
MaxExisting == 2        \* output files 0..MaxExisting may exist before the run
Categories == 2         \* categories a run over the pool goes through (of the five)
MaxScript == 4          \* provider answers scripted for a client called on its own

\* ------------------------------------------------------ program constants
NumCategories == 5      \* len(categories)
BraveMaxAttempts == 3   \* brave_search gives up when attempts >= 3
BraveBackoff == 2       \* wait_seconds = 2 * attempts
OpenAIMaxAttempts == 2  \* openai_summarize gives up when attempts >= 2
OpenAIDelay == 3        \* time.sleep(3)
DefaultCount == 3       \* brave_search(count=3): items per call of the end-to-end run
DefaultMaxItems == 5    \* NEWS_MAX_ITEMS default
DefaultDedupLimit == 2000 \* NEWS_DEDUP_LIMIT default
RateLimited == 429      \* the one HTTP status brave_search retries

VARIABLES
    env,          \* the environment: keys present, caps, toggles
    provider,     \* what successful searches return: "pool" or "unique"
    ncat,         \* len(categories) of this run
    fresh,        \* last URL handed out by the "unique" provider
    cacheFile,    \* news/.cache/seen_urls.json: [kind, urls]
    files,        \* dated output directory: suffix -> content (0 = no suffix)
    found,        \* the directory as output_dir.mkdir found it
    pc,           \* position of main()
    index,        \* enumerate(categories) index, 0-based
    qi,           \* position in `queries` (1 or 2)
    queried,      \* the candidates passed to brave_search for this category
    batches,      \* the filtered batch of each candidate of this category
    merged,       \* main's `merged`
    seen_urls,    \* main's `seen_urls`
    prior,        \* the set load_seen_urls returned
    filterSeen,   \* per category, the seen set dedupe_items was given
    sources,      \* main's `sources`: the SourceBundles
    emitted,      \* every URL put in a SourceBundle so far
    items,        \* main's `items`: what brave_search returned
    script,       \* a client called on its own: the provider's answers, in order
    result,       \* a client called on its own: how the call ended
    pauses,       \* inter-category sleeps taken
    briefing,     \* return value of openai_summarize
    candidate,    \* suffix of `output_path` (0 = unsuffixed)
    counter,      \* main's `counter`
    written,      \* suffixes this run opened for writing
    error,        \* the exception that ended the run
    exitCode,     \* -1 while running, then the process status
    stdout        \* what the process printed

vars == << env, provider, ncat, fresh, cacheFile, files, found, pc, index, qi, queried,
           batches, merged, seen_urls, prior, filterSeen, sources, emitted,
           items, script, result, pauses, briefing,
           candidate, counter, written, error, exitCode, stdout >>

\* ---------------------------------------------------------------- helpers
Min(a, b) == IF a < b THEN a ELSE b
Max(a, b) == IF a > b THEN a ELSE b

SeqsUpTo(S, n) == UNION { [1..k -> S] : k \in 0..n }

\* list[:n + 1]
PyPrefixOneMore(s, n) == SubSeq(s, 1, IF n + 1 < Len(s) THEN n + 1 ELSE Len(s))

\* list[:n] and list[-n:] as Python computes them, negative n included
PyPrefix(s, n) ==
    IF n >= 0 THEN SubSeq(s, 1, Min(n, Len(s)))
    ELSE SubSeq(s, 1, Max(Len(s) + n, 0))

PySuffixLen(len, n) ==
    IF n > 0 THEN Min(n, len)
    ELSE IF n = 0 THEN len
    ELSE Max(len + n, 0)

\* every order random.shuffle can leave the list in
Shuffles(s) ==
    LET n == Len(s)
        P == { f \in [1..n -> 1..n] : \A i, j \in 1..n : i # j => f[i] # f[j] }
    IN  { [i \in 1..n |-> s[f[i]]] : f \in P }


\* ------------------------------------------------------------ pure functions
Unknown == << "U", "n", "k", "n", "o", "w", "n" >>

\* urlparse(url).netloc of the model's URLs
Netloc(url) ==
    IF url = 0 THEN << >>
    ELSE CASE url % 3 = 1 -> << "W", "w", "w", ".", "a" >>
           [] url % 3 = 2 -> << "w", "e", "b" >>
           [] OTHER       -> << "w", "w", "w", "." >>

Lower(s) == [i \in 1..Len(s) |-> IF s[i] = "W" THEN "w" ELSE s[i]]

\* str.lstrip(chars): drop leading characters that are members of chars
RECURSIVE LStrip(_, _)
LStrip(s, chars) ==
    IF s # << >> /\ Head(s) \in chars THEN LStrip(Tail(s), chars) ELSE s

RECURSIVE RStrip(_, _)
RStrip(s, chars) ==
    IF s # << >> /\ s[Len(s)] \in chars
    THEN RStrip(SubSeq(s, 1, Len(s) - 1), chars) ELSE s

Whitespace == { " " }

\* str.strip()
Strip(s) == RStrip(LStrip(s, Whitespace), Whitespace)

sanitize_domain(url) ==
    LET host == LStrip(Lower(Netloc(url)), { "w", "." })
    IN  IF host = << >> THEN Unknown ELSE host

\* brave_search, lines 120-136: drop results without title or url
Normalize(results) ==
    LET Keep(r) == r.title # << >> /\ r.url # 0
        kept == SelectSeq(results, Keep)
    IN  [i \in 1..Len(kept) |->
            [title |-> kept[i].title, url |-> kept[i].url,
             source |-> sanitize_domain(kept[i].url)]]

\* dedupe_items without the test against the seen set
dedupe_items_unseen(its, seen) ==
    LET Keep(item) == item.url # 0
    IN  SelectSeq(its, Keep)

dedupe_items(its, seen) ==
    LET Keep(item) == ~(item.url = 0 \/ item.url \in seen)
    IN  SelectSeq(its, Keep)

load_seen_urls(file) ==
    IF file.kind # "list" THEN { }
    ELSE { u \in file.urls : u # 0 }

\* save_seen_urls, lines 63-65: list(seen) enumerates the set in an order the
\* language does not fix, so any len(ordered[-limit:]) members can be the ones kept
KeptSets(seen, limit) ==
    IF Cardinality(seen) > limit
    THEN { K \in SUBSET seen :
             Cardinality(K) = PySuffixLen(Cardinality(seen), limit) }
    ELSE { seen }

build_query(base, date_hint) ==
    IF date_hint = "" THEN base ELSE base \o << date_hint >>

CategoryKeys == << "tech", "finance", "startups", "life_science", "macro" >>

CategoryNames ==
    << "Tech & AI", "Finance", "Startups", "Life Science", "Macro Trends" >>

\* the category's base query, one token per category
CategoryQuery(i) == << CategoryKeys[i + 1] >>

DateDir == "date"

\* main, lines 271 and 313
Queries(i, use_date_hint) ==
    LET date_hint == IF use_date_hint THEN DateDir ELSE ""
    IN  << build_query(CategoryQuery(i), date_hint), CategoryQuery(i) >>

Urls(its) == { its[i].url : i \in 1..Len(its) }

Header == << "#", DateDir >>

\* main, lines 341-342
Content(text) == Header \o Strip(text) \o << "\n" >>

\* ------------------------------------------------------------ the provider
Title == << "t" >>

Valid(u) == [title |-> Title, url |-> u]
NoTitle == [title |-> << >>, url |-> 1]
NoUrl == [title |-> Title, url |-> 0]

RawItems == { Valid(u) : u \in 1..NumUrls } \cup { NoTitle, NoUrl }

\* the raw result lists given to a search client called on its own
RawLists == { << >>, << NoTitle >>, << NoUrl, Valid(1), NoTitle, Valid(2) >> }

UniqueResponse(n) ==
    [i \in 1..DefaultCount |-> [title |-> Title, url |-> n + i]]

\* one answer of a provider to one urlopen call
Ok(data) == [kind |-> "ok", code |-> 200, text |-> "", data |-> data]
HttpError(code, body) == [kind |-> "http", code |-> code, text |-> body, data |-> << >>]
NetError(exc) == [kind |-> "net", code |-> 0, text |-> exc, data |-> << >>]

HttpCodes == { RateLimited, 500 }
Bodies == { "", "body" }
NetErrors == { "URLError", "timeout" }

Failures ==
    { HttpError(c, b) : c \in HttpCodes, b \in Bodies }
    \cup { NetError(e) : e \in NetErrors }

\* n failures of the kinds brave_search retries, rate limit and network in turn
Retried(n) ==
    [i \in 1..n |-> IF i % 2 = 1 THEN HttpError(RateLimited, "")
                                  ELSE NetError("URLError")]

\* payload["web"]["results"] of the successful searches the provider can answer
Responses(mode, n) ==
    IF mode = "unique" THEN { UniqueResponse(n) }
    ELSE SeqsUpTo(RawItems, MaxResults)

\* choices[0]["message"]["content"] of a completion; choices = 0: no choices
Completions ==
    { [choices |-> 0, content |-> << >>],
      [choices |-> 1, content |-> << >>],
      [choices |-> 1, content |-> << " ", "x", " " >>],
      [choices |-> 1, content |-> << "x" >>] }

NoError == [kind |-> "none", code |-> 0, detail |-> "", attempts |-> 0]

NoOutput == [tag |-> "", msg |-> "", path |-> -1]

NoResult == [status |-> "none", value |-> << >>, error |-> NoError,
             requests |-> 0, waits |-> << >>]

Returned(value, n, slept) ==
    [status |-> "returned", value |-> value, error |-> NoError,
     requests |-> n, waits |-> slept]

Raise(err, n, slept) ==
    [status |-> "raised", value |-> << >>, error |-> err,
     requests |-> n, waits |-> slept]

\* the scripted answers ran out while the client was still asking
Pending(n, slept) ==
    [status |-> "pending", value |-> << >>, error |-> NoError,
     requests |-> n, waits |-> slept]

UpstreamError(o) ==
    [kind |-> "UpstreamError", code |-> o.code,
     detail |-> IF o.text # "" THEN o.text ELSE "reason", attempts |-> 0]

\* ------------------------------------------------------------ the clients
\* brave_search, lines 110 and 118: time.sleep(2 * attempts)
BackoffConstant(n) == BraveBackoff
BackoffWait(n) == BraveBackoff * n

\* brave_search, lines 106 and 114: if attempts >= 3
BraveKeepsGoing(n) == n > BraveMaxAttempts
BraveGivesUp(n) == n >= BraveMaxAttempts

\* openai_summarize, line 178: if attempts >= 2
OpenAIKeepsGoing(n) == n > OpenAIMaxAttempts
OpenAIGivesUp(n) == n >= OpenAIMaxAttempts

\* brave_search, lines 93-136: the i-th urlopen call gets answers[i]
RECURSIVE BraveLoop(_, _, _, _)
BraveLoop(answers, i, tries, slept) ==
    IF i > Len(answers) THEN Pending(i - 1, slept)
    ELSE LET o == answers[i]
             n == tries + 1
         IN  CASE o.kind = "ok" -> Returned(Normalize(o.data), i, slept)
               [] o.kind = "http" /\ o.code # RateLimited ->
                    Raise(UpstreamError(o), i, slept)
               [] o.kind = "http" /\ o.code = RateLimited ->
                    IF BraveGivesUp(n)
                    THEN Raise([NoError EXCEPT !.kind = "RateLimitExceeded",
                                               !.attempts = n], i, slept)
                    ELSE BraveLoop(answers, i + 1, n, Append(slept, BackoffWait(n)))
               [] OTHER ->
                    IF BraveGivesUp(n)
                    THEN Raise([NoError EXCEPT !.kind = "NetworkError",
                                               !.detail = o.text,
                                               !.attempts = n], i, slept)
                    ELSE BraveLoop(answers, i + 1, n, Append(slept, BackoffWait(n)))

brave_search(answers) == BraveLoop(answers, 1, 0, << >>)

\* openai_summarize, lines 165-190
RECURSIVE OpenAILoop(_, _, _, _)
OpenAILoop(answers, i, tries, slept) ==
    IF i > Len(answers) THEN Pending(i - 1, slept)
    ELSE LET o == answers[i]
             n == tries + 1
         IN  CASE o.kind = "ok" ->
                    IF o.data.choices = 0
                    THEN Raise([NoError EXCEPT !.kind = "MissingContent",
                                               !.detail = "choices"], i, slept)
                    ELSE IF o.data.content = << >>
                    THEN Raise([NoError EXCEPT !.kind = "MissingContent",
                                               !.detail = "content"], i, slept)
                    ELSE Returned(Strip(o.data.content), i, slept)
               [] o.kind = "http" -> Raise(UpstreamError(o), i, slept)
               [] OTHER ->
                    IF OpenAIGivesUp(n)
                    THEN Raise([NoError EXCEPT !.kind = "NetworkError",
                                               !.detail = o.text,
                                               !.attempts = n], i, slept)
                    ELSE OpenAILoop(answers, i + 1, n, Append(slept, OpenAIDelay))

openai_summarize(answers) == OpenAILoop(answers, 1, 0, << >>)

\* the answers one call inside a run can meet: retried failures, then an end
Runs(retries, last) ==
    { Retried(n) \o << o >> : n \in 0..retries, o \in last }

\* what a client, given as the set of ways its calls can end, returns or raises
Returns(ends) == { r.value : r \in { e \in ends : e.status = "returned" } }
Raises(ends) == { r.error : r \in { e \in ends : e.status = "raised" } }


\* ------------------------------------------------------------------- Init
Envs(caps, limits) ==
    [brave_key : BOOLEAN, openai_key : BOOLEAN, max_items : caps,
     dedupe_limit : limits, use_date_hint : BOOLEAN, shuffle_results : BOOLEAN]

\* the cache file before the run: absent, not JSON, JSON but no array, or an
\* array of strings (the empty string among them or not)
CacheFiles ==
    { [kind |-> k, urls |-> { }] : k \in { "missing", "invalid", "object" } }
    \cup { [kind |-> "list", urls |-> z..k] : z \in 0..1, k \in 0..NumUrls }

OutputDirs ==
    { [s \in E |-> << "old" >>] : E \in SUBSET (0..MaxExisting) }

InitLocals ==
    /\ fresh = 0
    /\ found = << >>
    /\ index = 0
    /\ qi = 1
    /\ queried = << >>
    /\ batches = << >>
    /\ merged = << >>
    /\ seen_urls = { }
    /\ prior = { }
    /\ filterSeen = << >>
    /\ sources = << >>
    /\ emitted = { }
    /\ items = << >>
    /\ result = NoResult
    /\ pauses = 0
    /\ briefing = << >>
    /\ candidate = 0
    /\ counter = 1
    /\ written = { }
    /\ error = NoError
    /\ exitCode = -1
    /\ stdout = NoOutput

Init ==
    /\ env \in Envs(0..MaxCap, { DefaultDedupLimit })
    /\ provider = "pool"
    /\ ncat = Categories
    /\ cacheFile \in CacheFiles
    /\ files = << >>
    /\ script = << >>
    /\ pc = "start"
    /\ InitLocals

\* the end-to-end run: nothing seen before, item cap 5, no shuffle, and every
\* successful search returns 3 valid items whose URLs no other call returns
InitE2E ==
    /\ env \in { e \in Envs({ DefaultMaxItems }, { DefaultDedupLimit }) :
                   ~e.shuffle_results }
    /\ provider = "unique"
    /\ ncat = NumCategories
    /\ cacheFile \in { f \in CacheFiles : load_seen_urls(f) = { } }
    /\ files = << >>
    /\ script = << >>
    /\ pc = "start"
    /\ InitLocals

DefaultEnv ==
    [brave_key |-> TRUE, openai_key |-> TRUE, max_items |-> DefaultMaxItems,
     dedupe_limit |-> DefaultDedupLimit, use_date_hint |-> TRUE,
     shuffle_results |-> TRUE]

\* the runs that decide what save_seen_urls keeps: every cap of the cache
InitCache ==
    /\ env \in { e \in Envs({ MaxCap }, 0..MaxLimit) :
                   e.use_date_hint /\ ~e.shuffle_results }
    /\ provider = "pool"
    /\ ncat = Categories
    /\ cacheFile \in CacheFiles
    /\ files = << >>
    /\ script = << >>
    /\ pc = "start"
    /\ InitLocals

InitClient(answers) ==
    /\ env = DefaultEnv
    /\ provider = "pool"
    /\ ncat = NumCategories
    /\ cacheFile = [kind |-> "missing", urls |-> { }]
    /\ files = << >>
    /\ script \in [1..MaxScript -> answers]
    /\ pc = "call"
    /\ InitLocals

\* brave_search called on its own with every scripted provider
InitSearch == InitClient({ Ok(p) : p \in RawLists } \cup Failures)

\* openai_summarize called on its own with every scripted provider
InitSummarize == InitClient({ Ok(c) : c \in Completions } \cup Failures)


\* ---------------------------------------------------------------- actions
loopVars == << index, qi, queried, batches, merged, seen_urls, prior,
               filterSeen, sources, emitted, pauses >>
outVars == << briefing, candidate, counter, written >>
worldVars == << env, provider, ncat, cacheFile, script, result, found >>

\* an exception unwinds main and reaches the handler of lines 362-366; the
\* locals of main do not outlive it
Raised(err) ==
    /\ error' = err
    /\ stdout' = [NoOutput EXCEPT !.tag = "Error: ", !.msg = err.kind]
    /\ exitCode' = 1
    /\ pc' = "exit"
    /\ index' = 0
    /\ qi' = 1
    /\ queried' = << >>
    /\ batches' = << >>
    /\ merged' = << >>
    /\ items' = << >>
    /\ seen_urls' = { }
    /\ prior' = { }
    /\ filterSeen' = << >>
    /\ sources' = << >>
    /\ emitted' = { }
    /\ pauses' = 0
    /\ briefing' = << >>
    /\ candidate' = 0
    /\ counter' = 1

\* main, lines 252-253: require_env raises
MissingEnv ==
    /\ pc = "start"
    /\ ~(env.brave_key /\ env.openai_key)
    /\ Raised([NoError EXCEPT !.kind = "MissingConfiguration"])
    /\ UNCHANGED << worldVars, fresh, files, written >>

\* main, lines 252-303
Startup ==
    /\ pc = "start"
    /\ env.brave_key /\ env.openai_key
    /\ seen_urls' = load_seen_urls(cacheFile)
    /\ prior' = load_seen_urls(cacheFile)
    /\ pc' = "search"
    /\ UNCHANGED << worldVars, fresh, files, items, outVars, index, qi,
                    queried, batches, merged, filterSeen, sources, emitted,
                    pauses, error, exitCode, stdout >>

\* main, line 325: if len(merged) >= max_items: break
MoreThanEnough(m, cap) == Len(m) > cap
EnoughItems(m, cap) == Len(m) >= cap

\* main, lines 315-326: brave_search returns, the batch is filtered and merged
Search ==
    /\ pc = "search"
    /\ \E found_items \in Returns({ brave_search(a) :
            a \in Runs(BraveMaxAttempts - 1,
                       { Ok(p) : p \in Responses(provider, fresh) }) }) :
        LET filtered == dedupe_items(found_items, seen_urls)
        IN  /\ items' = found_items
            /\ batches' = Append(batches, filtered)
            /\ merged' = merged \o filtered
            /\ IF EnoughItems(merged \o filtered, env.max_items) \/ qi = 2
               THEN pc' = "finalize" /\ UNCHANGED qi
               ELSE pc' = "search" /\ qi' = qi + 1
    /\ queried' = Append(queried, Queries(index, env.use_date_hint)[qi])
    /\ filterSeen' = IF Len(filterSeen) = index
                     THEN Append(filterSeen, seen_urls)
                     ELSE [filterSeen EXCEPT ![index + 1] = @ \cup seen_urls]
    /\ fresh' = IF provider = "unique" THEN fresh + DefaultCount ELSE fresh
    /\ UNCHANGED << worldVars, files, outVars, index, seen_urls, prior,
                    sources, emitted, pauses, error, exitCode, stdout >>

\* main, lines 315-322: brave_search raises
SearchRaises ==
    /\ pc = "search"
    /\ \E err \in Raises({ brave_search(a) :
            a \in Runs(BraveMaxAttempts - 1, Failures) }) :
        Raised(err)
    /\ UNCHANGED << worldVars, fresh, files, written >>

\* main, lines 327-336
Finalize ==
    /\ pc = "finalize"
    /\ \E order \in (IF env.shuffle_results THEN Shuffles(merged) ELSE { merged }) :
        LET final_items == PyPrefix(order, env.max_items)
        IN  /\ seen_urls' = seen_urls \cup (Urls(final_items) \ { 0 })
            /\ sources' = Append(sources, [category |-> CategoryNames[index + 1],
                                           items |-> final_items])
            /\ emitted' = emitted \cup Urls(final_items)
    /\ IF index < ncat - 1
       THEN /\ pauses' = pauses + 1
            /\ index' = index + 1
            /\ pc' = "search"
       ELSE /\ pc' = "prompt"
            /\ UNCHANGED << pauses, index >>
    /\ qi' = 1
    /\ queried' = << >>
    /\ batches' = << >>
    /\ merged' = << >>
    /\ items' = << >>
    /\ UNCHANGED << worldVars, fresh, files, outVars, prior, filterSeen,
                    error, exitCode, stdout >>

\* main, lines 338-349: openai_summarize returns; output_dir.mkdir(exist_ok=True)
\* is the run's first look at the dated directory, which earlier runs of the
\* same day may have filled.  `sources` went into the prompt and is not read
\* again, so the model lets go of it here.
Summarize ==
    /\ pc = "prompt"
    /\ \E dir \in OutputDirs :
        files' = dir /\ found' = dir
    /\ \E text \in Returns({ openai_summarize(a) :
            a \in Runs(OpenAIMaxAttempts - 1, { Ok(c) : c \in Completions }) }) :
        briefing' = text
    /\ candidate' = 0
    /\ counter' = 1
    /\ pc' = "path"
    /\ sources' = << >>
    /\ filterSeen' = << >>
    /\ UNCHANGED << env, provider, ncat, cacheFile, script, result, fresh, items,
                    index, qi, queried, batches, merged, seen_urls, prior,
                    emitted, pauses, written, error, exitCode, stdout >>

\* main, lines 338-339: openai_summarize raises
SummarizeRaises ==
    /\ pc = "prompt"
    /\ \E err \in Raises({ openai_summarize(a) :
            a \in Runs(OpenAIMaxAttempts - 1,
                       { Ok(c) : c \in Completions } \cup Failures) }) :
        Raised(err)
    /\ UNCHANGED << worldVars, fresh, files, written >>

\* output_path.exists()
PathNeverExists(dir, suffix) == FALSE
PathExists(dir, suffix) == suffix \in DOMAIN dir

\* Path.write_text: create or truncate, then write
WriteText(dir, suffix, text) ==
    [s \in DOMAIN dir \cup { suffix } |-> IF s = suffix THEN text ELSE dir[s]]

\* main, lines 350-353: one turn of the while loop
NextPath ==
    /\ pc = "path"
    /\ PathExists(files, candidate)
    /\ candidate' = counter
    /\ counter' = counter + 1
    /\ UNCHANGED << worldVars, fresh, files, items, loopVars, briefing,
                    written, pc, error, exitCode, stdout >>

\* main, line 355
WriteBriefing ==
    /\ pc = "path"
    /\ ~PathExists(files, candidate)
    /\ files' = WriteText(files, candidate, Content(briefing))
    /\ written' = written \cup { candidate }
    /\ pc' = "save"
    /\ UNCHANGED << worldVars, fresh, items, loopVars, briefing, candidate,
                    counter, error, exitCode, stdout >>

\* main, lines 345 and 355: mkdir or the open of write_text raises OSError
WriteBriefingFails ==
    /\ pc = "path"
    /\ ~PathExists(files, candidate)
    /\ Raised([NoError EXCEPT !.kind = "OSError", !.detail = "briefing"])
    /\ UNCHANGED << worldVars, fresh, files, written >>

\* main, lines 356-358, and save_seen_urls
SaveSeenUrls ==
    /\ pc = "save"
    /\ \E kept \in KeptSets(seen_urls, env.dedupe_limit) :
        cacheFile' = [kind |-> "list", urls |-> kept]
    /\ stdout' = [NoOutput EXCEPT !.tag = "path", !.path = candidate]
    /\ exitCode' = 0
    /\ pc' = "exit"
    /\ UNCHANGED << env, provider, ncat, script, result, found, fresh, files, items,
                    loopVars, outVars, error >>

\* save_seen_urls, lines 62 and 66: mkdir or the open of write_text raises OSError
SaveSeenUrlsFails ==
    /\ pc = "save"
    /\ Raised([NoError EXCEPT !.kind = "OSError", !.detail = "cache"])
    /\ UNCHANGED << worldVars, fresh, files, written >>

\* brave_search called with the scripted provider
CallBraveSearch ==
    /\ pc = "call"
    /\ result' = brave_search(script)
    /\ pc' = "returned"
    /\ UNCHANGED << env, provider, ncat, cacheFile, script, found, fresh, files,
                    items, loopVars, outVars, error, exitCode, stdout >>

\* openai_summarize called with the scripted provider
CallOpenAISummarize ==
    /\ pc = "call"
    /\ result' = openai_summarize(script)
    /\ pc' = "returned"
    /\ UNCHANGED << env, provider, ncat, cacheFile, script, found, fresh, files,
                    items, loopVars, outVars, error, exitCode, stdout >>

Next ==
    \/ MissingEnv
    \/ Startup
    \/ Search
    \/ SearchRaises
    \/ Finalize
    \/ Summarize
    \/ SummarizeRaises
    \/ NextPath
    \/ WriteBriefing
    \/ WriteBriefingFails
    \/ SaveSeenUrls
    \/ SaveSeenUrlsFails

Spec == Init /\ [][Next]_vars

SpecCache == InitCache /\ [][Next]_vars

SpecE2E == InitE2E /\ [][Next]_vars

SpecSearch == InitSearch /\ [][CallBraveSearch]_vars

SpecSummarize == InitSummarize /\ [][CallOpenAISummarize]_vars


\* ----------------------------------------------------------------- claims
Is429(o) == o.kind = "http" /\ o.code = 429
IsNet(o) == o.kind = "net"
IsFatalStatus(o) == o.kind = "http" /\ o.code # 429

\* the valid raw results of a payload, in order
ValidUrls(data) ==
    LET Good(r) == r.title # << >> /\ r.url # 0
        kept == SelectSeq(data, Good)
    IN  [i \in 1..Len(kept) |-> kept[i].url]

\* C3: a search that meets 429, 429 and then a success returns the normalized
\* result after exactly 3 requests, having slept 2 and then 4; a search that
\* meets three 429s in a row raises the rate-limit error after exactly 3
\* requests and asks no fourth time.
C3_RateLimitRetries ==
    pc = "returned" =>
        /\ (Is429(script[1]) /\ Is429(script[2]) /\ script[3].kind = "ok") =>
              /\ result.status = "returned"
              /\ result.requests = 3
              /\ result.waits = << 2, 4 >>
              /\ [i \in 1..Len(result.value) |-> result.value[i].url]
                    = ValidUrls(script[3].data)
              /\ \A i \in 1..Len(result.value) :
                    /\ result.value[i].title # << >>
                    /\ result.value[i].source = sanitize_domain(result.value[i].url)
        /\ (Is429(script[1]) /\ Is429(script[2]) /\ Is429(script[3])) =>
              /\ result.status = "raised"
              /\ result.error.kind = "RateLimitExceeded"
              /\ result.error.attempts = 3
              /\ result.requests = 3

C3_Witness ==
    /\ pc = "returned"
    /\ Is429(script[1]) /\ Is429(script[2]) /\ script[3].kind = "ok"
    /\ Len(script[3].data) > Len(result.value)
    /\ result.value # << >>
    /\ result.waits = << 2, 4 >>

\* the retried failures among the first n answers
Retryable(answers, n) ==
    { i \in 1..n : Is429(answers[i]) \/ IsNet(answers[i]) }

\* C4: for every sequence of provider answers, brave_search ends within 3
\* requests; a status other than 429 ends it at once with an upstream error
\* carrying the status and the body, whatever was retried before; each
\* retried failure, network failures included, is followed by a sleep of
\* 2 x (failures so far) and another request, up to the third failure.
C4_SearchFailures ==
    pc = "returned" =>
        LET n == result.requests
            last == script[n]
            failed == Cardinality(Retryable(script, n))
        IN  /\ result.status \in { "returned", "raised" }
            /\ n \in 1..3
            /\ \A i \in 1..(n - 1) : ~IsFatalStatus(script[i]) /\ script[i].kind # "ok"
            /\ IsFatalStatus(last) =>
                  /\ result.status = "raised"
                  /\ result.error.kind = "UpstreamError"
                  /\ result.error.code = last.code
                  /\ last.text # "" => result.error.detail = last.text
            /\ last.kind = "ok" => result.status = "returned"
            /\ (IsNet(last) \/ Is429(last)) =>
                  /\ failed = 3
                  /\ result.status = "raised"
                  /\ result.error.kind =
                        IF IsNet(last) THEN "NetworkError" ELSE "RateLimitExceeded"
            /\ Len(result.waits) = (IF failed = 3 THEN 2 ELSE failed)
            /\ \A j \in 1..Len(result.waits) : result.waits[j] = 2 * j

C4_Witness ==
    /\ pc = "returned"
    /\ IsNet(script[1]) /\ Is429(script[2]) /\ IsFatalStatus(script[3])
    /\ script[3].text # ""
    /\ script[4].kind = "ok"
    /\ result.status = "raised"
    /\ result.requests = 3
    /\ result.waits = << 2, 4 >>

\* C5: for every sequence of provider answers, openai_summarize retries a
\* network failure exactly once after a fixed sleep of 3 (2 requests at
\* most); an error status ends it at once with an upstream error; a success
\* without choices or with empty content ends it at once with the
\* missing-content error, and is not retried.
C5_SummarizeFailures ==
    pc = "returned" =>
        LET n == result.requests
            last == script[n]
        IN  /\ result.status \in { "returned", "raised" }
            /\ IsNet(script[1]) => n = 2 /\ result.waits = << 3 >>
            /\ ~IsNet(script[1]) => n = 1 /\ result.waits = << >>
            /\ last.kind = "http" =>
                  /\ result.status = "raised"
                  /\ result.error.kind = "UpstreamError"
                  /\ result.error.code = last.code
            /\ IsNet(last) =>
                  /\ n = 2
                  /\ result.status = "raised"
                  /\ result.error.kind = "NetworkError"
            /\ (last.kind = "ok" /\ (last.data.choices = 0 \/ last.data.content = << >>)) =>
                  /\ result.status = "raised"
                  /\ result.error.kind = "MissingContent"
            /\ (last.kind = "ok" /\ last.data.choices > 0 /\ last.data.content # << >>) =>
                  /\ result.status = "returned"
                  /\ result.value = Strip(last.data.content)

C5_Witness ==
    /\ pc = "returned"
    /\ IsNet(script[1])
    /\ script[2].kind = "ok" /\ script[2].data.choices > 0
    /\ script[2].data.content = << >>
    /\ script[3].kind = "ok" /\ script[3].data.content # << >>
    /\ result.status = "raised"
    /\ result.error.kind = "MissingContent"
    /\ result.requests = 2


RECURSIVE Flatten(_)
Flatten(ss) == IF ss = << >> THEN << >> ELSE Head(ss) \o Flatten(Tail(ss))

\* the items of every SourceBundle, as (bundle, position) pairs
Slots == { << k, i >> : k \in 1..Len(sources), i \in 1..MaxCap + DefaultMaxItems }
Emitted == { e \in Slots : e[2] <= Len(sources[e[1]].items) }
UrlAt(e) == sources[e[1]].items[e[2]].url

\* C1: a URL that is in the seen set when a category's batches are filtered,
\* loaded from the cache or recorded by an earlier category of the run, is
\* the URL of no item in the SourceBundle of that category or a later one.
C1_SeenNeverEmitted ==
    \A c \in 1..Len(filterSeen) :
        \A e \in Emitted :
            e[1] >= c => UrlAt(e) \notin filterSeen[c]

C1_Witness ==
    /\ pc = "finalize"
    /\ index = 1
    /\ prior # { }
    /\ sources[1].items # << >>
    /\ \E i \in 1..Len(items) : items[i].url \in filterSeen[2] \ prior
    /\ merged = << >>

\* C9: in each category the candidate with the date hint (when the toggle is
\* on) is searched first; the plain one is searched if and only if fewer than
\* max_items results of the first survived the filter, and its survivors are
\* merged after those of the first; there are at most 2 searches per
\* category and no SourceBundle holds more than max_items items.
C9_QueryVariants ==
    /\ Len(queried) <= 2
    /\ Len(batches) = Len(queried)
    /\ merged = Flatten(batches)
    /\ Len(queried) >= 1 =>
          queried[1] = (IF env.use_date_hint
                        THEN << CategoryKeys[index + 1], "date" >>
                        ELSE << CategoryKeys[index + 1] >>)
    /\ Len(queried) = 2 =>
          /\ queried[2] = << CategoryKeys[index + 1] >>
          /\ Len(batches[1]) < env.max_items
    /\ pc = "finalize" =>
          /\ Len(queried) >= 1
          /\ Len(queried) = 1 => Len(batches[1]) >= env.max_items
    /\ (pc = "search" /\ qi = 1) => queried = << >>
    /\ \A k \in 1..Len(sources) : Len(sources[k].items) <= env.max_items

C9_Witness ==
    /\ pc = "finalize"
    /\ env.use_date_hint
    /\ Len(queried) = 2
    /\ Len(batches[1]) = 1
    /\ Len(batches[2]) = 1
    /\ Len(sources) = 1
    /\ Len(sources[1].items) = env.max_items
    /\ env.max_items > 0

\* C10 as claimed: no URL is emitted twice in a run, within one SourceBundle
\* or across them.
C10_NoUrlTwice ==
    \A e1, e2 \in Emitted : e1 # e2 => UrlAt(e1) # UrlAt(e2)

\* C7: the briefing goes to the unsuffixed name when it is free, otherwise to
\* the smallest suffix 1, 2, ... that is free, and every file the directory
\* held before keeps its content.
C7_FreePath ==
    /\ \A s \in DOMAIN found : s \in DOMAIN files /\ files[s] = found[s]
    /\ written # { } =>
          \E w \in written :
              /\ written = { w }
              /\ w \notin DOMAIN found
              /\ \A n \in 0..(w - 1) : n \in DOMAIN found

C7_Witness ==
    /\ pc = "save"
    /\ written = { 1 }
    /\ DOMAIN found = { 0, 2 }
    /\ files[1] # files[0]

\* C6 as claimed: a run that exits with status 1 has written no briefing
\* file; a run that exits with status 0 has written exactly one, complete,
\* and has saved the cache.
C6_NoPartialSuccess ==
    /\ (pc = "exit" /\ exitCode = 1) => written = { }
    /\ (pc = "exit" /\ exitCode = 0) =>
          /\ Cardinality(written) = 1
          /\ \A w \in written : files[w] = Header \o briefing \o << "\n" >>
          /\ cacheFile.kind = "list"
          /\ stdout.tag = "path"

\* C2 as claimed: after a successful run the cache holds the loaded set and
\* the URLs emitted by the run, cut to the cap by dropping the oldest: never
\* more than the cap, and when something is dropped the URLs of this run
\* outlive the loaded ones.
C2_CacheKeepsNewest ==
    (pc = "exit" /\ exitCode = 0) =>
        LET all == prior \cup emitted
            kept == cacheFile.urls
            cap == env.dedupe_limit
        IN  /\ kept \subseteq all
            /\ Cardinality(kept) <= cap
            /\ Cardinality(all) <= cap => kept = all
            /\ Cardinality(all) > cap =>
                  /\ Cardinality(kept) = cap
                  /\ emitted \subseteq kept \/ kept \subseteq emitted

RECURSIVE Total(_)
Total(bundles) ==
    IF bundles = << >> THEN 0
    ELSE Len(Head(bundles).items) + Total(Tail(bundles))

\* C8 as claimed: in the end-to-end run every SourceBundle holds returned
\* items, min(returned, cap) of them, and the seen set after the last
\* category has one entry per emitted URL, 15 at most.
C8_AtMostFifteen ==
    pc = "prompt" =>
        /\ \A k \in 1..Len(sources) : Len(sources[k].items) <= env.max_items
        /\ Cardinality(seen_urls) = Total(sources)
        /\ Cardinality(seen_urls) <= NumCategories * DefaultCount

\* C8, amended: in the end-to-end run both candidates of a category are
\* searched (3 < 5), so every SourceBundle holds the first 5 of the 6 items
\* the two searches returned, in order, and the seen set after the last
\* category has one entry per emitted URL: 25 of them.
C8_FirstFiveOfSix ==
    /\ \A k \in 1..Len(sources) :
          /\ Len(sources[k].items) = 5
          /\ \A i \in 1..5 : sources[k].items[i].url = 6 * (k - 1) + i
    /\ pc = "prompt" =>
          /\ Len(sources) = 5
          /\ Cardinality(seen_urls) = Total(sources)
          /\ Cardinality(seen_urls) = 25
          /\ \A e1, e2 \in Emitted : e1 # e2 => UrlAt(e1) # UrlAt(e2)

C8_Witness ==
    /\ pc = "prompt"
    /\ Len(sources) = 5
    /\ Cardinality(seen_urls) = 25
    /\ prior = { }

====
